---- MODULE Spec2Model ----
(***************************************************************************)
(* The LevantFlow HTTP status service (src/index.js, the Firebase-enabled  *)
(* server of lines 81-232) as a state machine: the Express layer stack in  *)
(* registration order, the per-IP rate-limit store, the listener and its   *)
(* keep-alive connections, and the process-level signal / fault handlers.  *)
(***************************************************************************)
EXTENDS Integers, Sequences, FiniteSets

\* ---------------------------------------------------------------- bounds
\* Largest clock value (milliseconds since launch of the model's epoch).
MaxTime == 1
\* In Spec, a client stops sending new requests once the limiter has counted
\* this many of its requests in the current window.
MaxHits == 2

\* ------------------------------------------------------- program constants
\* rateLimit({ max: 100 })
max == 100

RateLimitMessage == "Too many requests from this IP, please try again later."

\* ------------------------------------------------------------ input sets
Clients == {"ip1", "ip2"}

\* process.env.NODE_ENV: two set values and the unset case.
Envs == {"development", "production", "unset"}

Paths == {"/", "/health", "/other"}

\* A request: its method, its path and the state of its body ("none": no
\* body, "json": a well-formed JSON body, "malformed": a body sent as
\* application/json that does not parse).
\* fault says that the route handler, if the request reaches one, raises.
Requests ==
    [method : {"GET", "HEAD"}, path : Paths, body : {"none"}, fault : BOOLEAN]
    \cup [method : {"OPTIONS"}, path : Paths, body : {"none"}, fault : {FALSE}]
    \cup [method : {"POST"}, path : Paths, body : {"json", "malformed"}, fault : {FALSE}]

\* The requests of the rate-limit specification: one of each kind of answer.
RateRequests ==
    { [method |-> "GET", path |-> "/", body |-> "none", fault |-> FALSE],
      [method |-> "GET", path |-> "/health", body |-> "none", fault |-> FALSE],
      [method |-> "GET", path |-> "/health", body |-> "none", fault |-> TRUE],
      [method |-> "POST", path |-> "/other", body |-> "json", fault |-> FALSE],
      [method |-> "POST", path |-> "/", body |-> "malformed", fault |-> FALSE],
      [method |-> "OPTIONS", path |-> "/", body |-> "none", fault |-> FALSE] }

VARIABLES
    env,        \* process.env.NODE_ENV
    startTime,  \* const startTime = new Date()
    now,        \* the wall clock
    listening,  \* the http.Server accepts new connections
    conn,       \* per client: "closed", "idle" (established, keep-alive), "busy" (request in flight)
    hits,       \* the rate limiter's store: requests counted per client IP in the current window
    proc,       \* "running" or "exited"
    exitCode,   \* the exit code once exited, -1 before
    fatalLog,   \* what the fatal-fault handlers wrote to console.error
    last        \* the last request handled and the response it got

vars == <<env, startTime, now, listening, conn, hits, proc, exitCode, fatalLog, last>>

\* ------------------------------------------------------- pure functions
Range(s) == {s[i] : i \in DOMAIN s}

\* Date.prototype.toISOString: a millisecond count rendered as seconds and
\* milliseconds fields.
toISOString(t) == <<t \div 1000, t % 1000>>

\* app.get('env'): process.env.NODE_ENV || 'development'
AppEnv(e) == IF e = "unset" THEN "development" ELSE e

NoResponse ==
    [status |-> 0, by |-> "none", message |-> "", error |-> "absent",
     bodyStatus |-> "", startTime |-> <<>>, timestamp |-> <<>>,
     xfo |-> "", xcto |-> "", xss |-> "",
     err |-> "none", faults |-> <<>>, done |-> FALSE, trace |-> <<>>, counted |-> FALSE,
     logged |-> FALSE]

\* app.use(helmet()): helmet's default X-Frame-Options, X-Content-Type-Options
\* and X-XSS-Protection headers.
Helmet(ctx) ==
    [ctx EXCEPT !.xfo = "SAMEORIGIN", !.xcto = "nosniff", !.xss = "0"]

\* app.use(compression()): the body encoding is not part of the model.
Compression(ctx) == ctx

\* app.use(cors()): an OPTIONS request is answered as a preflight (204, the
\* chain ends); any other request goes on.
Cors(req, ctx) ==
    IF req.method = "OPTIONS"
    THEN [ctx EXCEPT !.status = 204, !.by = "cors", !.done = TRUE]
    ELSE ctx

\* app.use(express.json()): a body that does not parse is passed to next(err).
Json(req, ctx) ==
    IF req.body = "malformed"
    THEN [ctx EXCEPT !.err = "parse", !.faults = Append(@, "parse")]
    ELSE ctx

\* OverLimit with the comparison off by one (>= for >).
OverLimitOffByOne(n) == n + 1 >= max

\* The limiter's decision on a request that is the (n+1)-th counted for its
\* client in the window.
OverLimit(n) == n + 1 > max

\* app.use(limiter): over is the limiter's decision on this request.
Limiter(over, ctx) ==
    IF over
    THEN [ctx EXCEPT !.counted = TRUE, !.status = 429, !.by = "limiter",
                     !.message = RateLimitMessage, !.done = TRUE]
    ELSE [ctx EXCEPT !.counted = TRUE]

\* The security headers middleware.
SecurityHeaders(ctx) ==
    [ctx EXCEPT !.xcto = "nosniff", !.xfo = "DENY", !.xss = "1; mode=block"]

\* The error handling middleware.
ErrorHandler(e, ctx) ==
    [ctx EXCEPT !.logged = TRUE, !.status = 500, !.by = "errorHandler",
                !.message = "Something went wrong!",
                !.error = IF e = "development" THEN "err.message" ELSE "absent",
                !.err = "none", !.done = TRUE]

\* RootBody with startTime taken from a fresh new Date() per request.
RootBodyFreshDate(st, t, ctx) ==
    [ctx EXCEPT !.bodyStatus = "online", !.message = "Welcome to LevantFlow API",
                !.startTime = toISOString(t), !.timestamp = toISOString(t)]

\* The body of GET /.
RootBody(st, t, ctx) ==
    [ctx EXCEPT !.bodyStatus = "online", !.message = "Welcome to LevantFlow API",
                !.startTime = toISOString(st), !.timestamp = toISOString(t)]

\* app.get('/'): f says that the handler raises.
GetRoot(f, st, t, ctx) ==
    IF f THEN [ctx EXCEPT !.err = "throw", !.faults = Append(@, "throw")]
    ELSE [RootBody(st, t, ctx) EXCEPT !.status = 200, !.by = "getRoot", !.done = TRUE]

\* HealthBody with a status other than the literal "healthy".
HealthBodyDegraded(t, ctx) ==
    [ctx EXCEPT !.bodyStatus = "degraded", !.timestamp = toISOString(t)]

\* The body of GET /health.
HealthBody(t, ctx) ==
    [ctx EXCEPT !.bodyStatus = "healthy", !.timestamp = toISOString(t)]

\* app.get('/health')
GetHealth(f, t, ctx) ==
    IF f THEN [ctx EXCEPT !.err = "throw", !.faults = Append(@, "throw")]
    ELSE [HealthBody(t, ctx) EXCEPT !.status = 200, !.by = "getHealth", !.done = TRUE]

\* The 404 handler.
NotFound(t, ctx) ==
    [ctx EXCEPT !.status = 404, !.by = "notFound", !.message = "Route not found",
                !.timestamp = toISOString(t), !.done = TRUE]

\* Express's default handler, reached when the stack is exhausted: an error
\* nobody handled is answered with its status (500 for a thrown fault) and the
\* stack trace unless the app runs in production; no error means no route.
FinalHandler(e, ctx) ==
    IF ctx.err # "none"
    THEN [ctx EXCEPT !.status = IF ctx.err = "parse" THEN 400 ELSE 500,
                     !.by = "finalhandler",
                     !.message = IF AppEnv(e) = "production"
                                 THEN "Internal Server Error" ELSE "err.stack",
                     !.done = TRUE]
    ELSE [ctx EXCEPT !.status = 404, !.by = "finalhandler",
                     !.message = "Cannot METHOD path", !.done = TRUE]

\* Stack with the limiter registered after the routes.
StackLimiterAfterRoutes ==
    << "helmet", "compression", "cors", "json", "securityHeaders",
       "errorHandler", "getRoot", "getHealth", "limiter", "notFound" >>

\* The layers in the order the app registers them.
Stack ==
    << "helmet", "compression", "cors", "json", "limiter", "securityHeaders",
       "errorHandler", "getRoot", "getHealth", "notFound" >>

\* A layer whose function takes (err, req, res, next).
IsErrorLayer(name) == name = "errorHandler"

\* Matches with the routes registered by app.all instead of app.get.
MatchesAnyMethod(name, req) ==
    CASE name = "getRoot"   -> req.path = "/"
      [] name = "getHealth" -> req.path = "/health"
      [] OTHER              -> TRUE

\* app.get(path, ...) also answers HEAD; app.use(fn) matches every request.
Matches(name, req) ==
    CASE name = "getRoot"   -> req.method \in {"GET", "HEAD"} /\ req.path = "/"
      [] name = "getHealth" -> req.method \in {"GET", "HEAD"} /\ req.path = "/health"
      [] OTHER              -> TRUE

RunLayer(name, req, over, e, st, t, ctx) ==
    LET c == [ctx EXCEPT !.trace = Append(@, name)] IN
    CASE name = "helmet"          -> Helmet(c)
      [] name = "compression"     -> Compression(c)
      [] name = "cors"            -> Cors(req, c)
      [] name = "json"            -> Json(req, c)
      [] name = "limiter"         -> Limiter(over, c)
      [] name = "securityHeaders" -> SecurityHeaders(c)
      [] name = "errorHandler"    -> ErrorHandler(e, c)
      [] name = "getRoot"         -> GetRoot(req.fault, st, t, c)
      [] name = "getHealth"       -> GetHealth(req.fault, t, c)
      [] name = "notFound"        -> NotFound(t, c)

\* Express's router: walk the stack from layer i. With an error pending only
\* error layers run, without one only the other layers that match; a layer
\* that ended the response stops the walk.
RECURSIVE Walk(_, _, _, _, _, _, _)
Walk(i, req, over, e, st, t, ctx) ==
    IF ctx.done THEN ctx
    ELSE IF i > Len(Stack) THEN FinalHandler(e, ctx)
    ELSE IF (ctx.err # "none") # IsErrorLayer(Stack[i]) THEN Walk(i + 1, req, over, e, st, t, ctx)
    ELSE IF ~Matches(Stack[i], req) THEN Walk(i + 1, req, over, e, st, t, ctx)
    ELSE Walk(i + 1, req, over, e, st, t, RunLayer(Stack[i], req, over, e, st, t, ctx))

\* The response to request req of a client with n requests counted so far.
Respond(req, n, e, st, t) == Walk(1, req, OverLimit(n), e, st, t, NoResponse)

NoExchange ==
    [method |-> "", path |-> "", body |-> "", threw |-> FALSE, res |-> NoResponse]

\* ---------------------------------------------------------------- Init
Init ==
    /\ env \in Envs
    /\ now = 0
    /\ startTime = now
    /\ listening = TRUE
    /\ conn = [c \in Clients |-> "closed"]
    /\ hits = [c \in Clients |-> 0]
    /\ proc = "running"
    /\ exitCode = -1
    /\ fatalLog = ""
    /\ last = NoExchange

\* --------------------------------------------------------------- actions
\* A client opens a connection to the listening server.
Connect(c) ==
    /\ proc = "running" /\ listening /\ conn[c] = "closed"
    /\ conn' = [conn EXCEPT ![c] = "idle"]
    /\ UNCHANGED <<env, startTime, now, listening, hits, proc, exitCode, fatalLog, last>>

\* A request arrives on an established connection.
Arrive(c) ==
    /\ proc = "running" /\ conn[c] = "idle"
    /\ conn' = [conn EXCEPT ![c] = "busy"]
    /\ UNCHANGED <<env, startTime, now, listening, hits, proc, exitCode, fatalLog, last>>

\* The app answers the request in flight on c's connection.
Handle(c, reqs) ==
    /\ proc = "running" /\ conn[c] = "busy"
    /\ \E req \in reqs :
         \E res \in {Respond(req, hits[c], env, startTime, now)} :
         /\ last' = [method |-> req.method, path |-> req.path, body |-> req.body,
                     threw |-> "throw" \in Range(res.faults), res |-> res]
         /\ hits' = IF res.counted THEN [hits EXCEPT ![c] = @ + 1] ELSE hits
    /\ conn' = [conn EXCEPT ![c] = "idle"]
    /\ UNCHANGED <<env, startTime, now, listening, proc, exitCode, fatalLog>>

\* An idle keep-alive connection ends (the client closes it or the server's
\* keep-alive timeout fires).
Close(c) ==
    /\ proc = "running" /\ conn[c] = "idle"
    /\ conn' = [conn EXCEPT ![c] = "closed"]
    /\ UNCHANGED <<env, startTime, now, listening, hits, proc, exitCode, fatalLog, last>>

\* windowMs has passed for client c: its counter is reset.
WindowReset(c) ==
    /\ proc = "running" /\ hits[c] > 0
    /\ hits' = [hits EXCEPT ![c] = 0]
    /\ UNCHANGED <<env, startTime, now, listening, conn, proc, exitCode, fatalLog, last>>

Tick ==
    /\ proc = "running" /\ now < MaxTime
    /\ now' = now + 1
    /\ UNCHANGED <<env, startTime, listening, conn, hits, proc, exitCode, fatalLog, last>>

\* process.on('SIGTERM'): server.close() stops the listener. Established
\* connections are kept; depending on the runtime's version the idle ones are
\* closed at once (closeIdle) or left to their keep-alive timeout.
Sigterm ==
    /\ proc = "running"
    /\ listening' = FALSE
    /\ \E closeIdle \in BOOLEAN :
         conn' = [c \in Clients |->
                    IF closeIdle /\ conn[c] = "idle" THEN "closed" ELSE conn[c]]
    /\ UNCHANGED <<env, startTime, now, hits, proc, exitCode, fatalLog, last>>

\* Nothing keeps the event loop alive (the listener is closed and so is every
\* connection): the process ends on its own, with exit code 0.
Drain ==
    /\ proc = "running" /\ ~listening
    /\ \A c \in Clients : conn[c] = "closed"
    /\ proc' = "exited" /\ exitCode' = 0
    /\ UNCHANGED <<env, startTime, now, listening, conn, hits, fatalLog, last>>

\* The exit code the fatal-fault handlers pass to process.exit.
FatalExitCode == 1

\* ProcessExit left out: the handler logs and returns.
ProcessExitMissing(code) ==
    UNCHANGED <<proc, exitCode, listening, conn>>

\* What process.exit(code) does to the process state.
ProcessExit(code) ==
    /\ proc' = "exited" /\ exitCode' = code
    /\ listening' = FALSE
    /\ conn' = [c \in Clients |-> "closed"]

\* process.on('uncaughtException'): an exception no middleware caught (thrown
\* from a timer or an I/O callback) is logged and the process exits.
UncaughtException ==
    /\ proc = "running"
    /\ fatalLog' = "Uncaught Exception:"
    /\ ProcessExit(FatalExitCode)
    /\ UNCHANGED <<env, startTime, now, hits, last>>

\* process.on('unhandledRejection')
UnhandledRejection ==
    /\ proc = "running"
    /\ fatalLog' = "Unhandled Rejection at:"
    /\ ProcessExit(FatalExitCode)
    /\ UNCHANGED <<env, startTime, now, hits, last>>

Next ==
    \/ \E c \in Clients : Connect(c)
    \/ \E c \in Clients : hits[c] < MaxHits /\ Arrive(c)
    \/ \E c \in Clients : Handle(c, Requests)
    \/ \E c \in Clients : Close(c)
    \/ \E c \in Clients : WindowReset(c)
    \/ Tick
    \/ Sigterm
    \/ Drain
    \/ UncaughtException
    \/ UnhandledRejection

Spec == Init /\ [][Next]_vars

\* What the runtime guarantees: a request in flight is answered, an idle
\* connection reaches its keep-alive timeout unless a request arrives first,
\* and a process with nothing left to wait for ends. Clients, signals and
\* faults are under no obligation.
Fairness ==
    /\ \A c \in Clients : WF_vars(Handle(c, Requests))
    /\ \A c \in Clients : WF_vars(Close(c))
    /\ WF_vars(Drain)

SpecFair == Spec /\ Fairness

InitRate == Init /\ env = "production"

NextRate ==
    \/ \E c \in Clients : Connect(c)
    \/ \E c \in Clients : hits[c] <= max /\ Arrive(c)
    \/ \E c \in Clients : Handle(c, RateRequests)
    \/ \E c \in Clients : WindowReset(c)

SpecRate == InitRate /\ [][NextRate]_vars

\* ================================================================ claims
InTrace(name, res) == \E i \in DOMAIN res.trace : res.trace[i] = name

\* The request of the last exchange reached a route handler or the 404 handler.
ReachedRouting(res) ==
    InTrace("getRoot", res) \/ InTrace("getHealth", res) \/ InTrace("notFound", res)

\* This step answers a request of client c.
Handled(c) == conn[c] = "busy" /\ conn'[c] = "idle"

Answered == last.res.by # "none"

\* ---- C1 (as stated) --------------------------------------------------
\* C1: every request a client issues counts in its window; the first 100 of
\* a window are passed on to routing and the 101st is answered 429 with the
\* limiter's message; another client's counter is untouched.
C1_Original ==
    [][\A c \in Clients : Handled(c) =>
          /\ hits'[c] = hits[c] + 1
          /\ hits[c] < max => ReachedRouting(last'.res)
          /\ hits[c] = max => /\ last'.res.status = 429
                              /\ last'.res.message = RateLimitMessage
          /\ \A d \in Clients \ {c} : hits'[d] = hits[d]]_vars

\* C1 (amended): the same, counting the requests that reach the limiter; a
\* request answered before it (OPTIONS by CORS with 204, a rejected JSON body
\* by the error middleware with 500) is neither counted nor limited.
C1_RateLimit ==
    [][\A c \in Clients : Handled(c) =>
          /\ last'.res.counted <=> (last'.method # "OPTIONS" /\ last'.body # "malformed")
          /\ last'.res.counted =>
                /\ hits'[c] = hits[c] + 1
                /\ hits[c] < max => ReachedRouting(last'.res)
                /\ hits[c] >= max => /\ last'.res.status = 429
                                     /\ last'.res.by = "limiter"
                                     /\ last'.res.message = RateLimitMessage
          /\ ~last'.res.counted =>
                /\ hits'[c] = hits[c]
                /\ last'.res.status \in {204, 500}
          /\ \A d \in Clients \ {c} : hits'[d] = hits[d]]_vars

\* One client was just answered 429 on its 101st counted request while the
\* other client, with requests of its own in the window, is under its quota.
C1_Witness ==
    /\ last.res.status = 429 /\ last.res.message = RateLimitMessage
    /\ hits["ip1"] = max + 1
    /\ hits["ip2"] = 2

\* ---- C10 -------------------------------------------------------------
\* C10 (as stated): a request counts toward its client's quota whatever its
\* method and path, and a request of a client that has 100 requests in the
\* window is answered 429 and reaches neither a route handler nor the 404
\* handler.
C10_Original ==
    [][\A c \in Clients : Handled(c) =>
          /\ hits'[c] = hits[c] + 1
          /\ hits[c] >= max => /\ last'.res.status = 429
                               /\ ~ReachedRouting(last'.res)]_vars

\* C10 (amended): every request that reaches the limiter counts, whatever its
\* method and path; once a client has 100 counted requests in the window no
\* request of it reaches a route handler or the 404 handler, and each one
\* that reaches the limiter is answered 429.
C10_LimiterBeforeRoutes ==
    [][\A c \in Clients : Handled(c) =>
          /\ (last'.method # "OPTIONS" /\ last'.body # "malformed") =>
                /\ last'.res.counted
                /\ hits'[c] = hits[c] + 1
          /\ hits[c] >= max =>
                /\ ~ReachedRouting(last'.res)
                /\ last'.res.counted => last'.res.status = 429
          /\ ReachedRouting(last'.res) => last'.res.counted /\ hits[c] < max]_vars

\* A request to an unmatched route was answered 429 by the limiter.
C10_Witness ==
    /\ last.res.by = "limiter" /\ last.res.status = 429
    /\ last.method = "POST" /\ last.path = "/other"
    /\ \E c \in Clients : hits[c] = max + 1

IsGet(path) == last.method = "GET" /\ last.path = path

\* C4 (as stated): a request that is neither GET / nor GET /health is
\* answered 404 with message "Route not found" and a timestamp.
C4_Original ==
    (Answered /\ ~IsGet("/") /\ ~IsGet("/health")) =>
        /\ last.res.status = 404
        /\ last.res.message = "Route not found"
        /\ last.res.timestamp # <<>>

\* C4 (amended): a request that reaches route matching (not OPTIONS, body
\* not rejected, not rate-limited) and is neither GET nor HEAD on / or
\* /health is answered 404 with message "Route not found" and a timestamp.
C4_NotFound ==
    (/\ Answered
     /\ last.method # "OPTIONS" /\ last.body # "malformed" /\ last.res.by # "limiter"
     /\ ~(last.method \in {"GET", "HEAD"} /\ last.path \in {"/", "/health"})) =>
        /\ last.res.status = 404
        /\ last.res.by = "notFound"
        /\ last.res.message = "Route not found"
        /\ last.res.timestamp # <<>>

\* POST /health was answered 404.
C4_Witness ==
    /\ last.method = "POST" /\ last.path = "/health" /\ last.body = "json"
    /\ last.res.status = 404

\* ---- C2 --------------------------------------------------------------
\* C2: a fault raised by a route handler is answered by the error handling
\* middleware with 500 and message "Something went wrong!".
C2_Original ==
    last.threw =>
        /\ InTrace("errorHandler", last.res)
        /\ last.res.status = 500
        /\ last.res.message = "Something went wrong!"

\* ---- C5 --------------------------------------------------------------
\* C5: the 500 response to a handler fault has an error field exactly when
\* NODE_ENV is "development".
C5_Original ==
    (last.threw /\ last.res.status = 500) =>
        ((last.res.error # "absent") <=> (env = "development"))

\* ---- C9 --------------------------------------------------------------
FirstStages == << "helmet", "compression", "cors", "json", "limiter" >>

\* C9: every request passes helmet, compression, CORS, JSON parsing and the
\* limiter in this order, and every response, a 429 included, carries the
\* headers that deny framing, disable sniffing and set the XSS protection.
C9_Original ==
    Answered =>
        /\ Len(last.res.trace) >= Len(FirstStages)
        /\ SubSeq(last.res.trace, 1, Len(FirstStages)) = FirstStages
        /\ last.res.xfo = "DENY"
        /\ last.res.xcto = "nosniff"
        /\ last.res.xss = "1; mode=block"

\* ---- C7 --------------------------------------------------------------
\* C7: an uncaught exception or unhandled rejection is logged and ends the
\* process with a non-zero exit code, and an exited process never serves
\* again.
C7_FatalExit ==
    /\ [](fatalLog # "" => (proc = "exited" /\ exitCode # 0))
    /\ []((proc = "exited" /\ exitCode # 0) => fatalLog # "")
    /\ [][proc = "exited" => (proc' = "exited" /\ last' = last /\ conn' = conn
                              /\ listening' = listening /\ exitCode' = exitCode)]_vars

\* The process was serving (a request answered, another in flight) when an
\* unhandled rejection ended it.
C7_Witness ==
    /\ proc = "exited" /\ exitCode = 1
    /\ fatalLog = "Unhandled Rejection at:"
    /\ last.res.status = 200

\* ---- C8 --------------------------------------------------------------
\* C8: no step changes startTime, and every GET / reports it.
C8_StartTime ==
    /\ [][startTime' = startTime]_vars
    /\ []((Answered /\ last.res.by = "getRoot") =>
             last.res.startTime = toISOString(startTime))

\* GET / answered after the clock advanced past the launch time, after a
\* request of another kind.
C8_Witness ==
    /\ last.res.by = "getRoot" /\ now > startTime
    /\ last.res.timestamp # last.res.startTime
    /\ \E c \in Clients : hits[c] >= 2

\* ---- C6 --------------------------------------------------------------
\* C6: after SIGTERM no connection is opened, a request in flight stays in
\* flight until it is answered, and the process eventually exits.
C6_Original ==
    /\ [][~listening => \A c \in Clients : conn[c] = "closed" => conn'[c] = "closed"]_vars
    /\ [][\A c \in Clients : (~listening /\ conn[c] = "busy") =>
             (conn'[c] = "busy" \/ Handled(c) \/ proc' = "exited")]_vars
    /\ ~listening ~> proc = "exited"
====
